---- MODULE Spec2Model ----
(***************************************************************************)
(* Object localisation engine of Yeongie/EE175: ColorFilter                *)
(* (src/color_filter.py) and PositionTracker (src/position_tracker.py).    *)
(*                                                                         *)
(* Images are small grids of pixels addressed <<x, y>>, x the column and   *)
(* y the row, both from 0, as OpenCV addresses contour points.  A frame    *)
(* holds BGR triples <<b, g, r>>, a mask holds 0 or 255.                   *)
(***************************************************************************)
EXTENDS Integers, Sequences, FiniteSets, TLC

VARIABLES
    COLOR_RANGES,   \* ColorFilter.COLOR_RANGES, the class-level dict (insertion ordered)
    target_color,   \* self.target_color
    min_area,       \* self.min_area
    frame,          \* the BGR frame the caller holds
    mask,           \* the mask the caller holds: the last create_mask result, or a mask of its own
    maskColor,      \* history: the target color the held mask was computed with
    maskLog,        \* history: <<frame, color, mask>> of each create_mask call that returned, in order
    contours,       \* find_colored_objects: the local list cv2.findContours returned
    objects,        \* find_colored_objects: the returned list
    objMaskColor,   \* history: the color that produced the mask of the last extraction
    available,      \* the list get_available_colors returned last
    raised,         \* the exception the last call raised, or "none"
    rawMask,        \* history: create_mask's local mask after the loop over the intervals
                    \* (line 84), of the caller's last create_mask call that returned
    program,        \* the interactive program running: "color", "combined", or "none"
    pc,             \* main(): "loop" at the head of the while loop, "key" at waitKey,
                    \* "done" after the loop, "crashed" after an uncaught exception
    available_colors,   \* main(): the local list of color names
    current_color_idx,  \* main(): index into available_colors, from 0
    show_mask,          \* main() of the color program: the mask view toggle
    current_mode_idx,   \* main() of the combined program: index into modes, from 0
    presses,        \* history: the 'c' key presses handled so far
    box,            \* PositionTracker: the detection box handed to extract_position
    position        \* PositionTracker: the dict extract_position returned

\* the locals of the interactive programs
loopVars == <<program, pc, available_colors, current_color_idx, show_mask,
              current_mode_idx, presses>>

vars == <<COLOR_RANGES, target_color, min_area, frame, mask, maskColor, maskLog,
          contours, objects, objMaskColor, available, raised, rawMask, box, position,
          loopVars>>

\* Python's None where an image, a box or a dict is expected, and where a name is
None == <<>>

NoColor == "None"

(***************************************************************************)
(* Bounds of the model.                                                    *)
(***************************************************************************)
\* The modelled images have two rows, the fewest in which a contour encloses
\* area, and GridW columns.
GridW == 6
\* min_area is drawn from 0..MaxMinArea
MaxMinArea == 2
\* create_mask calls the caller makes and keeps the results of
MaxCalls == 3

Xs == 0 .. (GridW - 1)
Ys == 0 .. 1
Pixels == Xs \X Ys

(***************************************************************************)
(* Arithmetic helpers.                                                     *)
(***************************************************************************)
Abs(n) == IF n < 0 THEN -n ELSE n

Min2(a, b) == IF a < b THEN a ELSE b

Max2(a, b) == IF a > b THEN a ELSE b

\* Python int() of the rational n/d (d > 0): truncation toward zero
TruncDiv(n, d) == IF n >= 0 THEN n \div d ELSE -((-n) \div d)

\* round-to-nearest of the rational n/d (n >= 0, d > 0), as cvRound
RoundDiv(n, d) == (2 * n + d) \div (2 * d)

SetMin(S) == CHOOSE m \in S : \A n \in S : m <= n

SetMax(S) == CHOOSE m \in S : \A n \in S : m >= n

\* an array or a list in memory: the same function, held as a table of its
\* values, so that each operation on it is computed once
Array(f) == f @@ <<>>

(***************************************************************************)
(* The color registry.  An ordered dict is a sequence of (key, value)      *)
(* records; an interval is <<lower, upper>>, each bound <<h, s, v>>.       *)
(***************************************************************************)
ColorRangesTable ==
    << [name |-> "red",    ranges |-> << << <<0, 100, 100>>,   <<10, 255, 255>> >>,
                                         << <<160, 100, 100>>, <<180, 255, 255>> >> >>],
       [name |-> "blue",   ranges |-> << << <<100, 100, 100>>, <<130, 255, 255>> >> >>],
       [name |-> "green",  ranges |-> << << <<40, 50, 50>>,    <<80, 255, 255>> >> >>],
       [name |-> "yellow", ranges |-> << << <<20, 100, 100>>,  <<30, 255, 255>> >> >>],
       [name |-> "orange", ranges |-> << << <<10, 100, 100>>,  <<20, 255, 255>> >> >>],
       [name |-> "purple", ranges |-> << << <<130, 50, 50>>,   <<160, 255, 255>> >> >>],
       [name |-> "white",  ranges |-> << << <<0, 0, 200>>,     <<180, 30, 255>> >> >>],
       [name |-> "black",  ranges |-> << << <<0, 0, 0>>,       <<180, 255, 50>> >> >> ] >>

\* list(d.keys())
Keys(d) == [i \in 1 .. Len(d) |-> d[i].name]

\* key in d
Has(d, k) == \E i \in 1 .. Len(d) : d[i].name = k

\* d[k]
Get(d, k) == d[CHOOSE i \in 1 .. Len(d) : d[i].name = k].ranges

\* str.lower() on the names the model passes in
Lower(s) == IF s = "RED" THEN "red" ELSE s

(***************************************************************************)
(* cv2.cvtColor(frame, COLOR_BGR2HSV) on 8-bit pixels: OpenCV's fixed      *)
(* point conversion (12 fractional bits), hue in 0..180.                   *)
(***************************************************************************)
sdiv_table(v) == IF v = 0 THEN 0 ELSE RoundDiv(255 * 4096, v)

hdiv_table(d) == IF d = 0 THEN 0 ELSE RoundDiv(180 * 4096, 6 * d)

BGR2HSV(px) ==
    LET b == px[1]
        g == px[2]
        r == px[3]
        v == Max2(b, Max2(g, r))
        vmin == Min2(b, Min2(g, r))
        diff == v - vmin
        s == (diff * sdiv_table(v) + 2048) \div 4096
        h0 == IF v = r THEN g - b
              ELSE IF v = g THEN b - r + 2 * diff
              ELSE r - g + 4 * diff
        h1 == (h0 * hdiv_table(diff) + 2048) \div 4096
        h == IF h1 < 0 THEN h1 + 180 ELSE h1
    IN  <<h, s, v>>

cvtColor(f) == Array([p \in Pixels |-> BGR2HSV(f[p])])

(***************************************************************************)
(* cv2.inRange, cv2.bitwise_or and the 5x5 morphology.  OpenCV's default   *)
(* border for erosion and dilation leaves the pixels outside the image     *)
(* out of the minimum and of the maximum.                                  *)
(***************************************************************************)
\* inRange with the upper bound left out of the interval
inRange_open(hsv, lower, upper) ==
    Array([p \in Pixels |->
              IF \A c \in 1 .. 3 : lower[c] <= hsv[p][c] /\ hsv[p][c] < upper[c]
              THEN 255 ELSE 0])

inRange(hsv, lower, upper) ==
    Array([p \in Pixels |->
              IF \A c \in 1 .. 3 : lower[c] <= hsv[p][c] /\ hsv[p][c] <= upper[c]
              THEN 255 ELSE 0])

bitwise_or(m1, m2) == Array([p \in Pixels |-> IF m1[p] # 0 \/ m2[p] # 0 THEN 255 ELSE 0])

zeros == Array([p \in Pixels |-> 0])

KernelSize == 5

Window(p) ==
    {q \in Pixels : Abs(q[1] - p[1]) <= KernelSize \div 2
                    /\ Abs(q[2] - p[2]) <= KernelSize \div 2}

erode(m) == Array([p \in Pixels |-> IF \A q \in Window(p) : m[q] # 0 THEN 255 ELSE 0])

dilate(m) == Array([p \in Pixels |-> IF \E q \in Window(p) : m[q] # 0 THEN 255 ELSE 0])

MORPH_OPEN(m) == dilate(erode(m))

MORPH_CLOSE(m) == erode(dilate(m))

\* the loop of create_mask over the intervals of the target color
RECURSIVE OrRanges(_, _, _)
OrRanges(hsv, ranges, m) ==
    IF ranges = <<>> THEN m
    ELSE OrRanges(hsv, Tail(ranges),
                  bitwise_or(m, inRange(hsv, Head(ranges)[1], Head(ranges)[2])))

\* the mask before the morphological cleanup
raw_mask(f, ranges) == OrRanges(cvtColor(f), ranges, zeros)

\* create_mask that ORs the intervals onto the mask of the call before
create_mask_accumulate(f, ranges) ==
    MORPH_CLOSE(MORPH_OPEN(OrRanges(cvtColor(f), ranges, IF mask = None THEN zeros ELSE mask)))

\* ColorFilter.create_mask, given the looked-up ranges
create_mask(f, ranges) == MORPH_CLOSE(MORPH_OPEN(raw_mask(f, ranges)))

(***************************************************************************)
(* cv2.findContours(mask, RETR_EXTERNAL, CHAIN_APPROX_SIMPLE): the border  *)
(* following of Suzuki and Abe as OpenCV codes it.  Directions are the     *)
(* chain codes 0..7: 0 east, 2 north, 4 west, 6 south (y grows downward).  *)
(* Pixels outside the image are background.                                *)
(***************************************************************************)
Foreground(m) == {p \in Pixels : m[p] # 0}

Delta(s) ==
    CASE s = 0 -> <<1, 0>>
      [] s = 1 -> <<1, -1>>
      [] s = 2 -> <<0, -1>>
      [] s = 3 -> <<-1, -1>>
      [] s = 4 -> <<-1, 0>>
      [] s = 5 -> <<-1, 1>>
      [] s = 6 -> <<0, 1>>
      [] OTHER -> <<1, 1>>

Step(p, s) == <<p[1] + Delta(s)[1], p[2] + Delta(s)[2]>>

Adjacent8(p, q) == p # q /\ Abs(p[1] - q[1]) <= 1 /\ Abs(p[2] - q[2]) <= 1

\* the 8-connected component of F that holds the pixels S
RECURSIVE Grow(_, _)
Grow(S, F) ==
    LET T == S \cup {q \in F : \E p \in S : Adjacent8(p, q)}
    IN  IF T = S THEN S ELSE Grow(T, F)

\* the pixel of a set the raster scan meets first
ScanStart(C) ==
    CHOOSE p \in C : \A q \in C : p[2] < q[2] \/ (p[2] = q[2] /\ p[1] <= q[1])

\* the 8-connected components of F, each found from the first pixel the scan meets
RECURSIVE Components(_)
Components(F) ==
    IF F = {} THEN {}
    ELSE LET C == Grow({ScanStart(F)}, F)
         IN  {C} \cup Components(F \ C)

\* the clockwise search around the start pixel, from the west; 4: none found
RECURSIVE FindCW(_, _, _)
FindCW(F, i0, s) ==
    LET s1 == (s + 7) % 8
    IN  IF Step(i0, s1) \in F \/ s1 = 4 THEN s1 ELSE FindCW(F, i0, s1)

\* the counter-clockwise search around i3, after direction s
RECURSIVE FindCCW(_, _, _)
FindCCW(F, i3, s) ==
    LET s1 == (s + 1) % 8
    IN  IF Step(i3, s1) \in F THEN s1 ELSE FindCCW(F, i3, s1)

\* the walk along the border; CHAIN_APPROX_SIMPLE keeps a point only where
\* the direction changes
RECURSIVE Trace(_, _, _, _, _, _, _)
Trace(F, i0, i1, i3, s, prev_s, acc) ==
    LET s4 == FindCCW(F, i3, s)
        i4 == Step(i3, s4)
        acc1 == IF s4 # prev_s THEN Append(acc, i3) ELSE acc
    IN  IF i4 = i0 /\ i3 = i1 THEN acc1
        ELSE Trace(F, i0, i1, i4, (s4 + 4) % 8, s4, acc1)

fetchContour(F, i0) ==
    LET s == FindCW(F, i0, 4)
    IN  IF s = 4 THEN <<i0>>
        ELSE Trace(F, i0, Step(i0, s), i0, s, (s + 4) % 8, <<>>)

\* The external contours of a mask.  No component lies inside a hole of
\* another one in an image of two rows, so every component is external.
ContourSet(m) ==
    LET F == Foreground(m)
    IN  {fetchContour(F, ScanStart(C)) : C \in Components(F)}

\* the pixel p comes before q in the raster scan
ScansBefore(p, q) == p[2] < q[2] \/ (p[2] = q[2] /\ p[1] < q[1])

\* the contours S in the order in which the raster scan meets their first points
ScanOrder(S) ==
    Array([i \in 1 .. Cardinality(S) |->
              CHOOSE c \in S : Cardinality({d \in S : ScansBefore(d[1], c[1])}) = i - 1])

Reverse(q) == Array([i \in 1 .. Len(q) |-> q[Len(q) + 1 - i]])

\* The lists findContours may return for the mask: OpenCV links every contour
\* it meets in front of the ones before, a scan that appends keeps scan order.
findContours(m) ==
    UNION {{q, Reverse(q)} : q \in {ScanOrder(S) : S \in {ContourSet(m)}}}

(***************************************************************************)
(* cv2.contourArea, cv2.boundingRect and cv2.moments of a contour.  Areas  *)
(* are multiples of one half and first moments of one sixth, so the model  *)
(* carries 2 * area, 2 * m00, 6 * m10 and 6 * m01 as integers.             *)
(***************************************************************************)
PrevPt(c, i) == IF i = 1 THEN c[Len(c)] ELSE c[i - 1]

RECURSIVE SumTo(_, _)
SumTo(f, n) == IF n = 0 THEN 0 ELSE f[n] + SumTo(f, n - 1)

Sum(f) == SumTo(f, Len(f))

\* xi_1 * yi - xi * yi_1 for the edge that ends in point i
Cross(c, i) == PrevPt(c, i)[1] * c[i][2] - c[i][1] * PrevPt(c, i)[2]

\* 2 * cv2.contourArea(contour)
contourArea2(c) == Abs(Sum([i \in 1 .. Len(c) |-> Cross(c, i)]))

boundingRect(c) ==
    LET xs == {c[i][1] : i \in 1 .. Len(c)}
        ys == {c[i][2] : i \in 1 .. Len(c)}
    IN  [x |-> SetMin(xs), y |-> SetMin(ys),
         w |-> SetMax(xs) - SetMin(xs) + 1, h |-> SetMax(ys) - SetMin(ys) + 1]

\* cv2.moments(contour): Green's formula; all zero when the signed area is
moments(c) ==
    LET a00 == Sum([i \in 1 .. Len(c) |-> Cross(c, i)])
        a10 == Sum([i \in 1 .. Len(c) |-> Cross(c, i) * (PrevPt(c, i)[1] + c[i][1])])
        a01 == Sum([i \in 1 .. Len(c) |-> Cross(c, i) * (PrevPt(c, i)[2] + c[i][2])])
        sgn == IF a00 > 0 THEN 1 ELSE -1
    IN  IF a00 = 0 THEN [m00_2 |-> 0, m10_6 |-> 0, m01_6 |-> 0]
        ELSE [m00_2 |-> sgn * a00, m10_6 |-> sgn * a10, m01_6 |-> sgn * a01]

(***************************************************************************)
(* ColorFilter.find_colored_objects from the contour list on.              *)
(***************************************************************************)
\* the center taken from the bounding box whatever the moments are
CenterOfBox(c) ==
    LET r == boundingRect(c)
    IN  <<r.x + r.w \div 2, r.y + r.h \div 2>>

\* lines 121-128: the center of one contour
Center(c) ==
    LET M == moments(c)
        r == boundingRect(c)
    IN  IF M.m00_2 # 0
        THEN <<TruncDiv(M.m10_6, 3 * M.m00_2), TruncDiv(M.m01_6, 3 * M.m00_2)>>
        ELSE <<r.x + r.w \div 2, r.y + r.h \div 2>>

\* the bounding box stored as cv2.boundingRect gave it
BBoxXYWH(r) == <<r.x, r.y, r.w, r.h>>

\* line 133: the stored bounding box
BBox(r) == <<r.x, r.y, r.x + r.w, r.y + r.h>>

\* lines 130-136: the dict appended for one contour
MakeObject(c, color) ==
    LET r == boundingRect(c)
    IN  [center |-> Center(c),
         area2 |-> contourArea2(c),
         bbox |-> BBox(r),
         contour |-> c,
         color |-> color]

\* the filter on the area of the bounding box instead of the contour
TooSmallByBox(c, minArea) == boundingRect(c).w * boundingRect(c).h < minArea

\* line 115: the contour is skipped
TooSmall(c, minArea) == contourArea2(c) < 2 * minArea

\* lines 110-136: the loop over the contours
RECURSIVE CollectObjects(_, _, _)
CollectObjects(cs, minArea, color) ==
    IF cs = <<>> THEN <<>>
    ELSE IF TooSmall(Head(cs), minArea) THEN CollectObjects(Tail(cs), minArea, color)
    ELSE <<MakeObject(Head(cs), color)>> \o CollectObjects(Tail(cs), minArea, color)

\* the insertion of a sort that puts an element before its equals
InsertDescUnstable(sorted, o) ==
    LET k == Cardinality({i \in 1 .. Len(sorted) : sorted[i].area2 > o.area2})
    IN  SubSeq(sorted, 1, k) \o <<o>> \o SubSeq(sorted, k + 1, Len(sorted))

\* list.sort(key=area, reverse=True) is stable: an element goes behind every
\* element that is not smaller
InsertDesc(sorted, o) ==
    LET k == Cardinality({i \in 1 .. Len(sorted) : sorted[i].area2 >= o.area2})
    IN  SubSeq(sorted, 1, k) \o <<o>> \o SubSeq(sorted, k + 1, Len(sorted))

RECURSIVE SortFrom(_, _)
SortFrom(sorted, rest) ==
    IF rest = <<>> THEN sorted ELSE SortFrom(InsertDesc(sorted, Head(rest)), Tail(rest))

SortByAreaDesc(objs) == SortFrom(<<>>, objs)

\* lines 110-141, from the contours findContours returned
ExtractObjects(cs, minArea, color) == SortByAreaDesc(CollectObjects(cs, minArea, color))

(***************************************************************************)
(* PositionTracker.extract_position.  A box carries its xyxy coordinates   *)
(* in half pixels (the detector's floats), its class and its confidence    *)
(* in tenths; int() truncates toward zero.                                 *)
(***************************************************************************)
\* extract_position with the center taken from the truncated corners
extract_position_intcenter(b) ==
    LET x1 == b.xyxy[1]
        y1 == b.xyxy[2]
        x2 == b.xyxy[3]
        y2 == b.xyxy[4]
        width == TruncDiv(x2 - x1, 2)
        height == TruncDiv(y2 - y1, 2)
    IN  [center |-> <<(TruncDiv(x1, 2) + TruncDiv(x2, 2)) \div 2,
                      (TruncDiv(y1, 2) + TruncDiv(y2, 2)) \div 2>>,
         bbox |-> <<TruncDiv(x1, 2), TruncDiv(y1, 2), TruncDiv(x2, 2), TruncDiv(y2, 2)>>,
         width |-> width,
         height |-> height,
         area |-> width * height,
         class_id |-> b.cls,
         confidence |-> b.conf]

extract_position(b) ==
    LET x1 == b.xyxy[1]
        y1 == b.xyxy[2]
        x2 == b.xyxy[3]
        y2 == b.xyxy[4]
        width == TruncDiv(x2 - x1, 2)
        height == TruncDiv(y2 - y1, 2)
    IN  [center |-> <<TruncDiv(x1 + x2, 4), TruncDiv(y1 + y2, 4)>>,
         bbox |-> <<TruncDiv(x1, 2), TruncDiv(y1, 2), TruncDiv(x2, 2), TruncDiv(y2, 2)>>,
         width |-> width,
         height |-> height,
         area |-> width * height,
         class_id |-> b.cls,
         confidence |-> b.conf]

(***************************************************************************)
(* Inputs.                                                                 *)
(***************************************************************************)
\* the names callers pass to the constructor and to set_color
ColorNames == {"red", "RED", "blue", "pink"}

\* BGR pixels: pure red, pure blue
Palette == << <<0, 0, 255>>, <<255, 0, 0>> >>

\* frames that are red left of column k and blue from it on
Frames ==
    {Array([p \in Pixels |-> IF p[1] < k THEN Palette[1] ELSE Palette[2]]) : k \in 0 .. GridW}

\* every mask a caller may hand in
Masks == [Pixels -> {0, 255}]

\* box coordinates in half pixels: 0 .. MaxHalf, and those of the box (10,10,30,50)
MaxHalf == 3
XCoords == (0 .. MaxHalf) \cup {20, 60}
YCoords == (0 .. MaxHalf) \cup {20, 100}

Boxes ==
    [xyxy : XCoords \X YCoords \X XCoords \X YCoords, cls : {0, 2}, conf : {0, 9, 15}]

(***************************************************************************)
(* The ColorFilter and its caller.  A behaviour follows the calls made     *)
(* while the caller holds one frame.                                       *)
(***************************************************************************)
\* no interactive program is running
NoLoop ==
    /\ program = "none"
    /\ pc = "none"
    /\ available_colors = <<>>
    /\ current_color_idx = 0
    /\ show_mask = FALSE
    /\ current_mode_idx = 0
    /\ presses = 0

\* what the specifications of the library calls start from alike
InitCommon ==
    /\ NoLoop
    /\ rawMask = None
    /\ COLOR_RANGES = ColorRangesTable
    /\ maskColor = NoColor
    /\ maskLog = <<>>
    /\ contours = <<>>
    /\ objects = <<>>
    /\ objMaskColor = NoColor
    /\ available = <<>>
    /\ raised = "none"
    /\ position = None

\* ColorFilter(target_color, min_area) returned; a frame is at hand
Init ==
    /\ InitCommon
    /\ \E c \in ColorNames :
          /\ Has(ColorRangesTable, Lower(c))
          /\ target_color = Lower(c)
    /\ min_area \in 0 .. MaxMinArea
    /\ frame \in Frames
    /\ mask = None
    /\ box = None

\* set_color that enters an unknown name into the registry, with no interval
set_color_registering(color) ==
    /\ target_color' = Lower(color)
    /\ raised' = "none"
    /\ COLOR_RANGES' = IF Has(COLOR_RANGES, Lower(color)) THEN COLOR_RANGES
                       ELSE Append(COLOR_RANGES, [name |-> Lower(color), ranges |-> <<>>])
    /\ UNCHANGED <<min_area, frame, mask, maskColor, maskLog,
                   contours, objects, objMaskColor, available, box, position, rawMask, loopVars>>

\* ColorFilter.set_color(color)
set_color(color) ==
    /\ target_color' = Lower(color)
    /\ raised' = IF Has(COLOR_RANGES, Lower(color)) THEN "none" ELSE "ValueError"
    /\ UNCHANGED <<COLOR_RANGES, min_area, frame, mask, maskColor, maskLog,
                   contours, objects, objMaskColor, available, box, position, rawMask, loopVars>>

SetColor == \E color \in ColorNames : set_color(color)

\* mask = color_filter.create_mask(frame)
CreateMask ==
    /\ Len(maskLog) < MaxCalls
    /\ IF Has(COLOR_RANGES, target_color)
       THEN /\ \E m \in {create_mask(frame, Get(COLOR_RANGES, target_color))} :
                  /\ mask' = m
                  /\ maskLog' = Append(maskLog, <<frame, target_color, m>>)
            /\ rawMask' = raw_mask(frame, Get(COLOR_RANGES, target_color))
            /\ maskColor' = target_color
            /\ raised' = "none"
       ELSE /\ raised' = "KeyError"
            /\ UNCHANGED <<mask, maskColor, maskLog, rawMask>>
    /\ UNCHANGED <<COLOR_RANGES, target_color, min_area, frame,
                   contours, objects, objMaskColor, available, box, position, loopVars>>

\* color_filter.find_colored_objects(frame): the mask is computed inside
FindColoredObjects ==
    /\ IF Has(COLOR_RANGES, target_color)
       THEN /\ \E m \in {create_mask(frame, Get(COLOR_RANGES, target_color))} :
               \E cs \in findContours(m) :
                  /\ contours' = cs
                  /\ objects' = ExtractObjects(cs, min_area, target_color)
            /\ objMaskColor' = target_color
            /\ raised' = "none"
       ELSE /\ raised' = "KeyError"
            /\ UNCHANGED <<contours, objects, objMaskColor>>
    /\ UNCHANGED <<COLOR_RANGES, target_color, min_area, frame, mask, maskColor,
                   maskLog, available, box, position, rawMask, loopVars>>

\* color_filter.find_colored_objects(frame, mask) with the mask the caller holds
FindColoredObjectsInMask ==
    /\ mask # None
    /\ \E cs \in findContours(mask) :
          /\ contours' = cs
          /\ objects' = ExtractObjects(cs, min_area, target_color)
    /\ objMaskColor' = maskColor
    /\ raised' = "none"
    /\ UNCHANGED <<COLOR_RANGES, target_color, min_area, frame, mask, maskColor,
                   maskLog, available, box, position, rawMask, loopVars>>

\* ColorFilter.get_available_colors()
GetAvailableColors ==
    /\ available' = Keys(COLOR_RANGES)
    /\ raised' = "none"
    /\ UNCHANGED <<COLOR_RANGES, target_color, min_area, frame, mask, maskColor,
                   maskLog, contours, objects, objMaskColor, box, position, rawMask, loopVars>>

Next ==
    \/ SetColor
    \/ CreateMask
    \/ FindColoredObjects
    \/ FindColoredObjectsInMask
    \/ GetAvailableColors

Spec == Init /\ [][Next]_vars

(***************************************************************************)
(* create_mask over frames whose pixels sit on and next to the bounds of   *)
(* the registered intervals, for every registered color.                   *)
(***************************************************************************)
\* BGR pixels and the HSV value cvtColor gives them
MaskPalette ==
    << <<0, 0, 255>>,       \* (0, 255, 255): lower end of the first red hue band
       <<0, 85, 255>>,      \* (10, 255, 255): upper end of the first red hue band
       <<0, 90, 255>>,      \* (11, 255, 255): just past it
       <<170, 0, 255>>,     \* (160, 255, 255): lower end of the second red hue band
       <<175, 0, 255>>,     \* (159, 255, 255): just before it
       <<85, 0, 255>>,      \* (170, 255, 255): inside the second red hue band
       <<155, 155, 255>>,   \* (0, 100, 255): lowest saturation of red
       <<156, 156, 255>>,   \* (0, 99, 255): just below it
       <<0, 0, 100>>,       \* (0, 255, 100): lowest value of red
       <<0, 0, 99>>,        \* (0, 255, 99): just below it
       <<255, 0, 0>>,       \* (120, 255, 255): blue
       <<255, 255, 255>>,   \* (0, 0, 255): white
       <<0, 0, 0>> >>       \* (0, 0, 0): black

\* frames of one palette pixel left of column k and another from it on
MaskFrames ==
    {Array([p \in Pixels |-> IF p[1] < k THEN MaskPalette[a] ELSE MaskPalette[b]]) :
        <<a, b, k>> \in (1 .. Len(MaskPalette)) \X (1 .. Len(MaskPalette)) \X (1 .. GridW - 1)}

InitMask ==
    /\ InitCommon
    /\ \E i \in 1 .. Len(ColorRangesTable) : target_color = ColorRangesTable[i].name
    /\ min_area = 0
    /\ frame \in MaskFrames
    /\ mask = None
    /\ box = None

NextMask == CreateMask

SpecMask == InitMask /\ [][NextMask]_vars

(***************************************************************************)
(* find_colored_objects as a function of any mask and threshold.           *)
(***************************************************************************)
InitExtract ==
    /\ InitCommon
    /\ target_color = "red"
    /\ min_area \in 0 .. MaxMinArea
    /\ frame = Array([p \in Pixels |-> Palette[1]])
    /\ mask \in Masks
    /\ box = None

NextExtract == FindColoredObjectsInMask

SpecExtract == InitExtract /\ [][NextExtract]_vars

(***************************************************************************)
(* extract_position as a function of any box.                              *)
(***************************************************************************)
InitTracker ==
    /\ InitCommon
    /\ target_color = "red"
    /\ min_area = 0
    /\ frame = Array([p \in Pixels |-> Palette[1]])
    /\ mask = None
    /\ box \in Boxes

\* tracker.extract_position(box)
ExtractPosition ==
    /\ box # None
    /\ position' = extract_position(box)
    /\ UNCHANGED <<COLOR_RANGES, target_color, min_area, frame, mask, maskColor,
                   maskLog, contours, objects, objMaskColor, available, raised, box,
                   rawMask, loopVars>>

NextTracker == ExtractPosition

SpecTracker == InitTracker /\ [][NextTracker]_vars

(***************************************************************************)
(* The interactive programs: main() of webcam_color_detection.py and of    *)
(* webcam_combined_detection.py.  Both build the list of color names and a *)
(* ColorFilter, then loop: read a frame, detect, show, handle one key.     *)
(* The YOLO model and the PositionTracker of the combined program draw on  *)
(* the frame shown and leave the locals and the ColorFilter alone.         *)
(***************************************************************************)
\* 'c' key presses followed in one run
MaxPresses == 9

\* modes = ['YOLO Only', 'Color Only', 'Both']
modes == <<"YOLO Only", "Color Only", "Both">>

\* main() up to the head of the while loop, the webcam opened
InitLoop ==
    /\ COLOR_RANGES = ColorRangesTable
    /\ program \in {"color", "combined"}
    /\ available_colors = Keys(ColorRangesTable)
    /\ available = Keys(ColorRangesTable)
    /\ current_color_idx = 0
    /\ target_color = Lower(Keys(ColorRangesTable)[1])
    /\ min_area = 500
    /\ show_mask = FALSE
    /\ current_mode_idx = IF program = "combined" THEN 2 ELSE 0
    /\ pc = "loop"
    /\ presses = 0
    /\ frame = None
    /\ mask = None
    /\ rawMask = None
    /\ maskColor = NoColor
    /\ maskLog = <<>>
    /\ contours = <<>>
    /\ objects = <<>>
    /\ objMaskColor = NoColor
    /\ raised = "none"
    /\ box = None
    /\ position = None

\* ret, frame = cap.read() with ret false: break
ReadFails ==
    /\ pc = "loop"
    /\ pc' = "done"
    /\ UNCHANGED <<COLOR_RANGES, target_color, min_area, frame, mask, maskColor, maskLog,
                   contours, objects, objMaskColor, available, raised, rawMask, box,
                   position, program, available_colors, current_color_idx, show_mask,
                   current_mode_idx, presses>>

\* one frame read, detected on and shown, up to waitKey
ProcessFrame ==
    /\ pc = "loop"
    /\ \E f \in Frames :
          /\ frame' = f
          /\ IF program = "color" \/ modes[current_mode_idx + 1] \in {"Color Only", "Both"}
             THEN IF Has(COLOR_RANGES, target_color)
                  THEN /\ \E m \in {create_mask(f, Get(COLOR_RANGES, target_color))} :
                          \E cs \in findContours(m) :
                             /\ contours' = cs
                             /\ objects' = ExtractObjects(cs, min_area, target_color)
                       /\ objMaskColor' = target_color
                       /\ raised' = "none"
                       /\ pc' = "key"
                  ELSE /\ raised' = "KeyError"
                       /\ pc' = "crashed"
                       /\ UNCHANGED <<contours, objects, objMaskColor>>
             ELSE /\ pc' = "key"
                  /\ UNCHANGED <<contours, objects, objMaskColor, raised>>
    /\ UNCHANGED <<COLOR_RANGES, target_color, min_area, mask, maskColor, maskLog,
                   available, rawMask, box, position, program, available_colors,
                   current_color_idx, show_mask, current_mode_idx, presses>>

\* key == ord('q'): break
PressQ ==
    /\ pc = "key"
    /\ pc' = "done"
    /\ UNCHANGED <<COLOR_RANGES, target_color, min_area, frame, mask, maskColor, maskLog,
                   contours, objects, objMaskColor, available, raised, rawMask, box,
                   position, program, available_colors, current_color_idx, show_mask,
                   current_mode_idx, presses>>

\* the 'c' branch with set_color called before the index is advanced
PressC_stale ==
    /\ pc = "key"
    /\ presses < MaxPresses
    /\ current_color_idx' = (current_color_idx + 1) % Len(available_colors)
    /\ target_color' = Lower(available_colors[current_color_idx + 1])
    /\ raised' = "none"
    /\ pc' = "loop"
    /\ presses' = presses + 1
    /\ UNCHANGED <<COLOR_RANGES, min_area, frame, mask, maskColor, maskLog,
                   contours, objects, objMaskColor, available, rawMask, box,
                   position, program, available_colors, show_mask, current_mode_idx>>

\* key == ord('c'): advance the index, then set_color(available_colors[index])
PressC ==
    /\ pc = "key"
    /\ presses < MaxPresses
    /\ current_color_idx' = (current_color_idx + 1) % Len(available_colors)
    /\ target_color' = Lower(available_colors[current_color_idx' + 1])
    /\ IF Has(COLOR_RANGES, target_color')
       THEN raised' = "none" /\ pc' = "loop"
       ELSE raised' = "ValueError" /\ pc' = "crashed"
    /\ presses' = presses + 1
    /\ UNCHANGED <<COLOR_RANGES, min_area, frame, mask, maskColor, maskLog,
                   contours, objects, objMaskColor, available, rawMask, box,
                   position, program, available_colors, show_mask, current_mode_idx>>

\* key == ord('m'): toggle the mask view, or cycle the detection mode
PressM ==
    /\ pc = "key"
    /\ pc' = "loop"
    /\ IF program = "color"
       THEN show_mask' = ~show_mask /\ UNCHANGED current_mode_idx
       ELSE current_mode_idx' = (current_mode_idx + 1) % Len(modes) /\ UNCHANGED show_mask
    /\ UNCHANGED <<COLOR_RANGES, target_color, min_area, frame, mask, maskColor, maskLog,
                   contours, objects, objMaskColor, available, raised, rawMask, box,
                   position, program, available_colors, current_color_idx, presses>>

\* waitKey(1) returned no key, or a key without a branch
PressOther ==
    /\ pc = "key"
    /\ pc' = "loop"
    /\ UNCHANGED <<COLOR_RANGES, target_color, min_area, frame, mask, maskColor, maskLog,
                   contours, objects, objMaskColor, available, raised, rawMask, box,
                   position, program, available_colors, current_color_idx, show_mask,
                   current_mode_idx, presses>>

NextLoop ==
    \/ ReadFails
    \/ ProcessFrame
    \/ PressQ
    \/ PressC
    \/ PressM
    \/ PressOther

SpecLoop == InitLoop /\ [][NextLoop]_vars

(***************************************************************************)
(* Properties.                                                             *)
(***************************************************************************)
RegionSet(objs) == {objs[i] : i \in DOMAIN objs}

IndexOf(seq, e) == CHOOSE i \in DOMAIN seq : seq[i] = e

\* C1: a set_color call that fails on an unregistered name leaves the target
\* color as it was before the call.
C1_FailedSetColorKeepsColor ==
    [][(SetColor /\ raised' = "ValueError") => target_color' = target_color]_vars

\* C2: no returned region has an area below min_area, and a larger threshold on
\* the same mask returns a subset of the regions.
C2_MinAreaFilter ==
    /\ \A i \in DOMAIN objects : objects[i].area2 >= 2 * min_area
    /\ contours # <<>> =>
          \A m2 \in (min_area + 1) .. (MaxMinArea + 1) :
             \A cs \in findContours(mask) :
                RegionSet(ExtractObjects(cs, m2, target_color)) \subseteq RegionSet(objects)

\* a region was discarded, and a larger threshold would discard one more
C2_Witness ==
    /\ min_area > 0
    /\ objects # <<>>
    /\ Len(objects) < Len(contours)
    /\ \E m2 \in (min_area + 1) .. (MaxMinArea + 1) :
          Len(ExtractObjects(contours, m2, target_color)) < Len(objects)

\* C3: the returned regions are in descending order of area, and regions of
\* equal area are in the order in which their contours were discovered.
C3_SortedStable ==
    \A i, j \in DOMAIN objects :
       i < j =>
          \/ objects[i].area2 > objects[j].area2
          \/ /\ objects[i].area2 = objects[j].area2
             /\ IndexOf(contours, objects[i].contour) < IndexOf(contours, objects[j].contour)

\* two regions tie, and a larger region discovered after a smaller one was moved ahead
C3_Witness ==
    /\ \E i, j \in DOMAIN objects : i < j /\ objects[i].area2 = objects[j].area2
    /\ \E i, j \in DOMAIN objects :
          /\ i < j
          /\ objects[i].area2 > objects[j].area2
          /\ IndexOf(contours, objects[i].contour) > IndexOf(contours, objects[j].contour)

\* C4: the record of extract_position has width = x2 - x1, height = y2 - y1
\* and area = width * height for the corners of its own bbox.
C4_RecordConsistent ==
    position # None =>
       /\ position.width = position.bbox[3] - position.bbox[1]
       /\ position.height = position.bbox[4] - position.bbox[2]
       /\ position.area = position.width * position.height

\* C5: the center is the midpoint of the box truncated to integers, class and
\* confidence are those of the box, and the box (10,10,30,50) of class 2 and
\* confidence 0.9 gives center (20,30), width 20, height 40 and area 800.
C5_CenterClassConfidence ==
    position # None =>
       /\ 4 * position.center[1] <= box.xyxy[1] + box.xyxy[3]
       /\ box.xyxy[1] + box.xyxy[3] < 4 * position.center[1] + 4
       /\ 4 * position.center[2] <= box.xyxy[2] + box.xyxy[4]
       /\ box.xyxy[2] + box.xyxy[4] < 4 * position.center[2] + 4
       /\ position.class_id = box.cls
       /\ position.confidence = box.conf
       /\ (box = [xyxy |-> <<20, 20, 60, 100>>, cls |-> 2, conf |-> 9]) =>
             /\ position.center = <<20, 30>>
             /\ position.width = 20
             /\ position.height = 40
             /\ position.area = 800
             /\ position.class_id = 2
             /\ position.confidence = 9

\* the record of the box (10,10,30,50), class 2, confidence 0.9
C5_Witness ==
    /\ position # None
    /\ box = [xyxy |-> <<20, 20, 60, 100>>, cls |-> 2, conf |-> 9]

RegistryWellFormed ==
    \A i \in DOMAIN COLOR_RANGES :
       /\ Len(COLOR_RANGES[i].ranges) >= 1
       /\ \A k \in DOMAIN COLOR_RANGES[i].ranges :
             LET lower == COLOR_RANGES[i].ranges[k][1]
                 upper == COLOR_RANGES[i].ranges[k][2]
             IN  /\ lower[1] \in 0 .. 180 /\ upper[1] \in 0 .. 180
                 /\ lower[2] \in 0 .. 255 /\ upper[2] \in 0 .. 255
                 /\ lower[3] \in 0 .. 255 /\ upper[3] \in 0 .. 255
                 /\ \A c \in 1 .. 3 : lower[c] <= upper[c]

\* C6: every registered color has at least one interval, every bound lies in
\* the HSV domain with lower <= upper in each component, and no operation
\* changes the registry.
C6_RegistryWellFormedAndFixed ==
    /\ []RegistryWellFormed
    /\ [][COLOR_RANGES' = COLOR_RANGES]_vars

\* every operation has been called, the last one a set_color that failed
C6_Witness ==
    /\ available = Keys(COLOR_RANGES)
    /\ maskLog # <<>>
    /\ objects # <<>>
    /\ raised = "ValueError"

LogFunctional ==
    \A i, j \in DOMAIN maskLog :
       (maskLog[i][1] = maskLog[j][1] /\ maskLog[i][2] = maskLog[j][2])
          => maskLog[i][3] = maskLog[j][3]

\* C7: two create_mask calls on the same frame with the same target color
\* return the same mask, and a call changes neither the frame, the target
\* color, the threshold nor the registry.
C7_CreateMaskPure ==
    /\ []LogFunctional
    /\ [][CreateMask => UNCHANGED <<frame, target_color, min_area, COLOR_RANGES>>]_vars

\* create_mask was called twice with one color and, in between, with another
\* color that gave another mask
C7_Witness ==
    /\ Len(maskLog) = 3
    /\ maskLog[1][2] = maskLog[3][2]
    /\ maskLog[1][2] # maskLog[2][2]
    /\ maskLog[1][3] # maskLog[2][3]

\* C8: every returned region carries the color that produced the mask it was
\* extracted from.
C8_TagIsMaskColor ==
    \A i \in DOMAIN objects : objects[i].color = objMaskColor

\* C9: the stored bounding box of a region holds every point of its contour
\* and its centroid.
C9_BoxContains ==
    \A i \in DOMAIN objects :
       LET o == objects[i]
       IN  /\ \A k \in DOMAIN o.contour :
                /\ o.bbox[1] <= o.contour[k][1] /\ o.contour[k][1] <= o.bbox[3]
                /\ o.bbox[2] <= o.contour[k][2] /\ o.contour[k][2] <= o.bbox[4]
           /\ o.bbox[1] <= o.center[1] /\ o.center[1] <= o.bbox[3]
           /\ o.bbox[2] <= o.center[2] /\ o.center[2] <= o.bbox[4]

\* a region with a moment-based centroid and one with the fallback, away from column 0
C9_Witness ==
    /\ \E i \in DOMAIN objects :
          moments(objects[i].contour).m00_2 # 0 /\ objects[i].bbox[1] > 0
    /\ \E i \in DOMAIN objects :
          moments(objects[i].contour).m00_2 = 0 /\ objects[i].bbox[1] > 0

\* C10: the centroid is (m10/m00, m01/m00) truncated when m00 is not zero and
\* the center of the bounding box, in whole pixels, when it is; every contour
\* that passes the filter gets one.
C10_Centroid ==
    /\ \A i \in DOMAIN objects :
          LET o == objects[i]
              M == moments(o.contour)
              r == boundingRect(o.contour)
          IN  /\ M.m00_2 # 0 =>
                    /\ 3 * M.m00_2 * o.center[1] <= M.m10_6
                    /\ M.m10_6 < 3 * M.m00_2 * (o.center[1] + 1)
                    /\ 3 * M.m00_2 * o.center[2] <= M.m01_6
                    /\ M.m01_6 < 3 * M.m00_2 * (o.center[2] + 1)
              /\ M.m00_2 = 0 => o.center = <<r.x + r.w \div 2, r.y + r.h \div 2>>
    /\ Len(objects) = Cardinality({k \in DOMAIN contours : contourArea2(contours[k]) >= 2 * min_area})

\* a fallback centroid and a moment-based one whose quotient is not whole
C10_Witness ==
    /\ \E i \in DOMAIN objects : moments(objects[i].contour).m00_2 = 0
    /\ \E i \in DOMAIN objects :
          LET M == moments(objects[i].contour)
          IN  M.m00_2 # 0 /\ 3 * M.m00_2 * objects[i].center[1] < M.m10_6


\* C11: before the morphological cleanup, a pixel of the mask create_mask
\* builds is set if and only if its HSV value lies component-wise within
\* [lower, upper], both ends included, for at least one interval of the
\* target color; for red a pixel in either of the two bands is set.
WithinSome(hsv, ranges) ==
    \E i \in 1 .. Len(ranges) :
        \A c \in 1 .. 3 : ranges[i][1][c] <= hsv[c] /\ hsv[c] <= ranges[i][2][c]

C11_RawMaskIsUnion ==
    rawMask # None =>
        \A p \in Pixels :
            /\ rawMask[p] \in {0, 255}
            /\ (rawMask[p] = 255) <=> WithinSome(BGR2HSV(frame[p]), Get(COLOR_RANGES, maskColor))

\* a red mask that holds a pixel on the upper end of the first band (hue 10)
\* and a pixel on the lower end of the second band (hue 160)
C11_Witness ==
    /\ rawMask # None
    /\ maskColor = "red"
    /\ \E p, q \in Pixels :
          /\ BGR2HSV(frame[p])[1] = 10 /\ rawMask[p] = 255
          /\ BGR2HSV(frame[q])[1] = 160 /\ rawMask[q] = 255

\* C12: in every reachable state of a constructed ColorFilter, after any
\* sequence of set_color calls, successful or failing, target_color is a
\* lower-case name present in the registry, and so the range lookup of
\* create_mask and find_colored_objects never fails with KeyError.
C12_TargetRegistered ==
    /\ target_color = Lower(target_color)
    /\ Has(COLOR_RANGES, target_color)
    /\ raised # "KeyError"

\* C13: in the interactive loops, at the head of every frame iteration and
\* after any sequence of 'c' and 'm' presses, target_color equals
\* available_colors[current_color_idx] with the index in range; each 'c'
\* press moves to the next registered color in registry order and its
\* set_color does not fail; as many presses as there are registered colors
\* lead back to the starting color.
C13_IndexAgrees ==
    pc \in {"loop", "key"} =>
        /\ current_color_idx \in 0 .. (Len(available_colors) - 1)
        /\ target_color = available_colors[current_color_idx + 1]

\* the color after n presses is the one n places on in the registry, cyclically
C13_CycleReturns ==
    target_color = Keys(COLOR_RANGES)[(presses % Len(COLOR_RANGES)) + 1]

C13_PressAdvances ==
    PressC =>
        /\ raised' = "none"
        /\ pc' = "loop"
        /\ \E i \in 1 .. Len(COLOR_RANGES) :
              /\ Keys(COLOR_RANGES)[i] = target_color
              /\ target_color' = Keys(COLOR_RANGES)[(i % Len(COLOR_RANGES)) + 1]

C13_ColorCycle ==
    /\ [](C13_IndexAgrees /\ C13_CycleReturns)
    /\ [][C13_PressAdvances]_vars

\* the head of an iteration after one full cycle of 'c' presses and an 'm' press
C13_Witness ==
    /\ pc = "loop"
    /\ presses = Len(available_colors)
    /\ current_color_idx = 0
    /\ target_color = available_colors[1]
    /\ \/ program = "color" /\ show_mask
       \/ program = "combined" /\ current_mode_idx # 2
    /\ frame # None

====
